---- MODULE Spec2Model ----
(***************************************************************************)
(* opspulse: the distributed routine scheduler (api/function_app.py) over  *)
(* the routine store (api/src/supabase_admin.py).                          *)
(*                                                                         *)
(* Instants are whole seconds since an arbitrary minute-aligned origin.    *)
(* The store is the only shared state; every store call is one atomic      *)
(* step, and the steps of concurrent ticks, workers and REST handlers      *)
(* interleave freely.                                                      *)
(***************************************************************************)
EXTENDS Integers, Sequences, FiniteSets, TLC

(* ------------------------------ bounds -------------------------------- *)

\* Last wall-clock instant the model observes.
MaxTime == 300

\* Scheduler invocations (ticks) that find something due, in one behaviour.
MaxStarts == 2

\* Store calls that fail (non-2xx answer) in one behaviour.
MaxFaults == 1

\* REST requests (create, PATCH, DELETE, manual run) in one behaviour.
MaxRest == 3

\* Largest difference between the clock readings of concurrent callers of
\* try_lock_routine (SpecLock).
MaxSkew == 1

\* Latest next_run_at and latest clock reading given to the schedule advance
\* (SpecClock).
MaxAnchor == 600
MaxNow == 900

\* Most whole intervals a routine is overdue when a tick finds it
\* (SpecCatchUp).
MaxBacklog == 3

\* Longest value of a timeout environment variable (SpecProbe).
MaxTimeoutLen == 2

\* Calls of get_or_create_workspace_id that are made (SpecWorkspace).
MaxCalls == 4

\* Most entries of a headers mapping that a request carries (SpecValidate,
\* SpecHeaders).
MaxHeaders == 1

(* ------------------------- program constants -------------------------- *)

LeaseSeconds == 45
DueSlackSeconds == 3
BatchLimit == 20
MaxConcurrency == 5
DefaultInterval == 5
MinInterval == 5
SecondsPerMinute == 60

\* None / SQL NULL for an instant.
NULL == -1
MAX_HEADER_NAME_LEN == 100
MAX_HEADER_VALUE_LEN == 4096

\* None / SQL NULL for locked_by.
NoOwner == "none"

Routines == {"r1", "r2"}
Instances == {"iA", "iB"}
Ticks == {"t1", "t2"}
Intervals == {MinInterval}

\* The clock is observed at these instants only: the start of every
\* five-minute timer period and the first instant after a lease taken at
\* that start has expired.
SampleOffsets == {0, LeaseSeconds + 1}
Samples ==
  {s \in 0..MaxTime : (s % (MinInterval * SecondsPerMinute)) \in SampleOffsets}

VARIABLES
  clock,     \* wall-clock UTC, seconds
  faults,    \* store calls that have failed so far
  starts,    \* scheduler invocations that found something due so far
  rest,      \* REST requests served so far
  routines,  \* table routines: id -> row
  runs,      \* table routine_runs, in insertion order
  tick,      \* scheduler invocations: locals of scheduler()
  wk,        \* pool workers: locals of _run_one_scheduled(), per tick and routine
  manual,    \* the run_routine() handler in flight
  race,      \* history: routines two instances listed before either leased them
  adv,       \* input and output of _compute_next_run_scheduled (SpecClock)
  probe,     \* input and outcome of _execute_http_routine (SpecProbe)
  ws,        \* table workspaces and the get_or_create_workspace_id calls
  hdr        \* headers_json, auth_mode and secret_ref of a routine, as create
             \* and PATCH requests write them

vars == <<clock, faults, starts, rest, routines, runs, tick, wk, manual, race,
          adv, probe, ws, hdr>>

(* ------------------------------ time ---------------------------------- *)

Min(a, b) == IF a <= b THEN a ELSE b

to_minute(dt) == dt - (dt % SecondsPerMinute)

Minutes(n) == n * SecondsPerMinute

(* ------------------------------ rows ---------------------------------- *)

\* A row of table routines. st: "absent" (id not yet issued), "live",
\* "deleted".
NoRoutine ==
  [st |-> "absent", is_active |-> FALSE, interval_minutes |-> DefaultInterval,
   next_run_at |-> NULL, last_run_at |-> NULL, updated_at |-> NULL,
   lock_until |-> NULL, locked_by |-> NoOwner]

NewRoutine(interval, next_run) ==
  [st |-> "live", is_active |-> TRUE, interval_minutes |-> interval,
   next_run_at |-> next_run, last_run_at |-> NULL, updated_at |-> NULL,
   lock_until |-> NULL, locked_by |-> NoOwner]

IdleTick ==
  [pc |-> "idle", locked_by |-> NoOwner, now |-> 0, candidates |-> <<>>,
   idx |-> 0, matched |-> FALSE]

IdleWorker ==
  [pc |-> "none", routine |-> NoRoutine, finished_at |-> NULL,
   next_run |-> NULL, status |-> "none", raised |-> FALSE,
   matched |-> FALSE, cleared |-> FALSE, inserted |-> 0]

IdleManual ==
  [pc |-> "idle", routine_id |-> "r1", finished_at |-> NULL,
   status |-> "none"]

NoRace == [on |-> FALSE, leased |-> {}, ran |-> {}]

NoAdv == [anchor |-> NULL, interval |-> DefaultInterval, now |-> 0,
          out |-> NULL]

\* No call of _execute_http_routine, of get_or_create_workspace_id, of
\* validate_headers.
NoProbe == [on |-> FALSE]
NoWorkspaces == [on |-> FALSE]
NoHeaders == [on |-> FALSE]

(* ---------------------------- ScheduleClock --------------------------- *)

\* An advance that adds one interval and skips nothing.
SkipNothing(next_dt, step, now_dt) == next_dt

\* while next_dt <= now_dt: next_dt = next_dt + timedelta(minutes=interval)
RECURSIVE SkipPast(_, _, _)
SkipPast(next_dt, step, now_dt) ==
  IF next_dt <= now_dt THEN SkipPast(next_dt + step, step, now_dt) ELSE next_dt

\* The advance anchored on the clock reading instead of the due slot.
compute_next_run_from_now(routine, now_dt) ==
  to_minute(now_dt + Minutes(IF routine.interval_minutes = NULL
                             THEN DefaultInterval ELSE routine.interval_minutes))

\* routine is any record with fields interval_minutes and next_run_at.
compute_next_run_scheduled(routine, now_dt) ==
  LET interval == IF routine.interval_minutes = NULL \/ routine.interval_minutes = 0
                  THEN DefaultInterval ELSE routine.interval_minutes
      anchor_dt == IF routine.next_run_at = NULL THEN now_dt
                   ELSE routine.next_run_at
      next_dt == SkipPast(anchor_dt + Minutes(interval), Minutes(interval), now_dt)
  IN to_minute(next_dt)

(* ---------------------------- RoutineStore ---------------------------- *)

\* or=(lock_until.is.null,lock_until.lt.<ts>)
NoLiveLease(row, ts) == row.lock_until = NULL \/ row.lock_until < ts

\* The filter of list_due_routines.
IsDue(row, cutoff) ==
  /\ row.st = "live"
  /\ row.is_active
  /\ row.next_run_at <= cutoff
  /\ NoLiveLease(row, cutoff)

\* order=next_run_at.asc
RECURSIVE OrderByNextRun(_)
OrderByNextRun(S) ==
  IF S = {} THEN <<>>
  ELSE LET m == CHOOSE x \in S :
                  \A y \in S : routines[x].next_run_at <= routines[y].next_run_at
       IN <<m>> \o OrderByNextRun(S \ {m})

list_due_routines(cutoff, limit) ==
  LET all == OrderByNextRun({r \in DOMAIN routines : IsDue(routines[r], cutoff)})
  IN SubSeq(all, 1, Min(limit, Len(all)))

\* The filter of try_lock_routine's conditional update.
TryLockMatches(row, now) == row.st = "live" /\ NoLiveLease(row, now)

\* A conditional update that sets lock_until and leaves locked_by.
TryLockUpdateNoOwner(row, now, lease_seconds, locked_by) ==
  [row EXCEPT !.lock_until = now + lease_seconds, !.updated_at = now]

\* The body of try_lock_routine's conditional update.
TryLockUpdate(row, now, lease_seconds, locked_by) ==
  [row EXCEPT !.lock_until = now + lease_seconds, !.locked_by = locked_by,
              !.updated_at = now]

\* The filter of try_lock_routine's read-back, of finish_scheduled_run and of
\* release_lock: locked_by=eq.<locked_by>
OwnedBy(row, locked_by) == row.st = "live" /\ row.locked_by = locked_by

\* A finish_scheduled_run whose filter leaves out locked_by.
finish_any_owner(row, locked_by, last_run_at, next_run_at) ==
  IF row.st = "live"
  THEN [row EXCEPT !.last_run_at = last_run_at, !.next_run_at = next_run_at,
                   !.lock_until = NULL, !.locked_by = NoOwner,
                   !.updated_at = last_run_at]
  ELSE row

finish_scheduled_run(row, locked_by, last_run_at, next_run_at) ==
  IF OwnedBy(row, locked_by)
  THEN [row EXCEPT !.last_run_at = last_run_at, !.next_run_at = next_run_at,
                   !.lock_until = NULL, !.locked_by = NoOwner,
                   !.updated_at = last_run_at]
  ELSE row

release_lock(row, locked_by) ==
  IF OwnedBy(row, locked_by)
  THEN [row EXCEPT !.lock_until = NULL, !.locked_by = NoOwner]
  ELSE row

\* A touch that also gives the lease back.
touch_and_unlock(row, iso_ts) ==
  IF row.st = "live"
  THEN [row EXCEPT !.last_run_at = iso_ts, !.updated_at = iso_ts,
                   !.lock_until = NULL, !.locked_by = NoOwner]
  ELSE row

touch_last_run(row, iso_ts) ==
  IF row.st = "live"
  THEN [row EXCEPT !.last_run_at = iso_ts, !.updated_at = iso_ts]
  ELSE row

insert_run(routine_id, triggered_by, status, finished_at) ==
  Append(runs, [routine_id |-> routine_id, triggered_by |-> triggered_by,
                status |-> status, finished_at |-> finished_at])

(* ------------------------------- Init --------------------------------- *)

\* The state with the rows `rows` in table routines and the tick slots
\* `slots`, nothing running.
InitWith(rows, slots) ==
  /\ clock = 0
  /\ faults = 0
  /\ starts = 0
  /\ rest = 0
  /\ routines = rows
  /\ runs = <<>>
  /\ tick = [t \in slots |-> IdleTick]
  /\ wk = [t \in slots |-> [r \in DOMAIN rows |-> IdleWorker]]
  /\ manual = IdleManual
  /\ race = [r \in DOMAIN rows |-> NoRace]
  /\ adv = NoAdv
  /\ probe = NoProbe
  /\ ws = NoWorkspaces
  /\ hdr = NoHeaders

\* One routine, created one interval before the origin, so due at 0; two
\* tick slots, so two invocations of scheduler() can overlap.
Init == InitWith([r \in {"r1"} |-> NewRoutine(MinInterval, 0)], Ticks)

(* ---------------------------- environment ----------------------------- *)

Advance ==
  /\ \E s \in Samples : s > clock /\ clock' = s
  /\ UNCHANGED <<faults, starts, rest, routines, runs, tick, wk, manual, race, adv, probe, ws, hdr>>

\* A store call answers 2xx (ok) or fails; at most MaxFaults calls fail.
StoreAnswers(ok) ==
  /\ ok \/ faults < MaxFaults
  /\ faults' = IF ok THEN faults ELSE faults + 1

\* The outcome of the probe of routine r: the endpoint of r1 answers 2xx, the
\* endpoint of r2 does not.
EndpointStatus(r) == IF r = "r1" THEN "SUCCESS" ELSE "FAIL"

\* WEBSITE_INSTANCE_ID of the process that runs tick slot t: slot t1 is on
\* instance iA, slot t2 on either instance.
InstancesOf(t) == IF t = "t1" THEN {"iA"} ELSE Instances

(* ------------------------------ scheduler ----------------------------- *)

\* Tick u has routine r among the candidates it has not yet tried to lock.
Pending(u, r) ==
  /\ tick[u].pc = "lock"
  /\ \E i \in tick[u].idx..Len(tick[u].candidates) : tick[u].candidates[i] = r

InSeq(x, sq) == \E i \in 1..Len(sq) : sq[i] = x

\* An exception that leaves scheduler(): the invocation has failed.
reraised(e) == [IdleTick EXCEPT !.pc = "raised"]

\* `except Exception as e: print(...)`, at the end of scheduler() ("fatal
\* error") and around f.result() ("worker error"): the tick goes on to its
\* return.
logged(e) == IdleTick

\* scheduler(), from the clock reading to the end of list_due_routines.
scheduler_start(t, locked_by, ok) ==
  /\ tick[t].pc = "idle"
  /\ starts < MaxStarts
  /\ StoreAnswers(ok)
  /\ LET now == clock
         due == now + DueSlackSeconds
         candidates == list_due_routines(due, BatchLimit)
     IN IF ~ok
        THEN \* RuntimeError: "fatal error", the tick returns
             /\ tick' = [tick EXCEPT ![t] = logged("fatal error")]
             /\ UNCHANGED <<race, starts>>
        ELSE /\ candidates # <<>>
             /\ starts' = starts + 1
             /\ tick' = [tick EXCEPT ![t] =
                           [pc |-> "lock", locked_by |-> locked_by, now |-> now,
                            candidates |-> candidates, idx |-> 1,
                            matched |-> FALSE]]
             /\ race' = [r \in DOMAIN routines |->
                           IF /\ InSeq(r, candidates)
                              /\ \E u \in DOMAIN tick \ {t} :
                                   /\ Pending(u, r)
                                   /\ tick[u].locked_by # locked_by
                                   /\ now < tick[u].now + LeaseSeconds
                           THEN [NoRace EXCEPT !.on = TRUE]
                           ELSE NoRace]
  /\ UNCHANGED <<clock, rest, routines, runs, wk, manual, adv, probe, ws, hdr>>

\* The end of one iteration of the lock loop: `if got: locked.append(got)`,
\* then the next candidate, or the end of the loop: return when nothing is
\* locked, else submit every locked routine to the pool.
AfterTryLock(t, rid, got, matched) ==
  LET wk1 == IF got.st = "live"
             THEN [wk EXCEPT ![t][rid] =
                     [IdleWorker EXCEPT !.pc = "locked", !.routine = got,
                                        !.matched = matched]]
             ELSE wk
      last == tick[t].idx = Len(tick[t].candidates)
  IN /\ race' = IF got.st = "live" /\ race[rid].on
                THEN [race EXCEPT ![rid].leased = @ \cup {t}]
                ELSE race
     /\ IF ~last
        THEN /\ tick' = [tick EXCEPT ![t].pc = "lock", ![t].idx = @ + 1,
                                     ![t].matched = FALSE]
             /\ wk' = wk1
        ELSE IF \A r \in DOMAIN routines : wk1[t][r].pc # "locked"
        THEN /\ tick' = [tick EXCEPT ![t] = IdleTick]
             /\ wk' = wk1
        ELSE /\ tick' = [tick EXCEPT ![t].pc = "pool", ![t].matched = FALSE]
             /\ wk' = [wk1 EXCEPT ![t] =
                         [r \in DOMAIN routines |->
                            IF wk1[t][r].pc = "locked"
                            THEN [wk1[t][r] EXCEPT !.pc = "queued"]
                            ELSE wk1[t][r]]]

\* try_lock_routine, the conditional update and the `if rows` return.
\* echo: whether the response to a matched update carries the row.
try_lock_patch(t, echo, ok) ==
  /\ tick[t].pc = "lock"
  /\ StoreAnswers(ok)
  /\ LET rid == tick[t].candidates[tick[t].idx]
         row == routines[rid]
         m == TryLockMatches(row, tick[t].now)
         new == IF m THEN TryLockUpdate(row, tick[t].now, LeaseSeconds,
                                        tick[t].locked_by)
                ELSE row
     IN IF ~ok
        THEN \* RuntimeError out of the loop: "fatal error", the tick returns
             /\ echo
             /\ tick' = [tick EXCEPT ![t] = logged("fatal error")]
             /\ wk' = [wk EXCEPT ![t] = [r \in DOMAIN routines |-> IdleWorker]]
             /\ UNCHANGED <<routines, race>>
        ELSE /\ routines' = [routines EXCEPT ![rid] = new]
             /\ IF m /\ echo
                THEN AfterTryLock(t, rid, new, m)
                ELSE /\ m \/ echo
                     /\ tick' = [tick EXCEPT ![t].pc = "check", ![t].matched = m]
                     /\ UNCHANGED <<wk, race>>
  /\ UNCHANGED <<clock, starts, rest, runs, manual, adv, probe, ws, hdr>>

\* The row try_lock_routine's read-back returns: the row when the GET
\* answers 200 and the filter matches, else None.
ReadBack(row, locked_by, ok) ==
  IF ok /\ OwnedBy(row, locked_by) THEN row ELSE NoRoutine

\* try_lock_routine, the read-back taken when the response carried no row.
try_lock_check(t, ok) ==
  /\ tick[t].pc = "check"
  /\ StoreAnswers(ok)
  /\ LET rid == tick[t].candidates[tick[t].idx]
     IN AfterTryLock(t, rid, ReadBack(routines[rid], tick[t].locked_by, ok),
                     tick[t].matched)
  /\ UNCHANGED <<clock, starts, rest, routines, runs, manual, adv, probe, ws, hdr>>

Running(t) ==
  {r \in DOMAIN routines : wk[t][r].pc \in {"insert", "finish", "except", "release"}}

\* _run_one_scheduled: the probe and the schedule advance.
worker_probe(t, r) ==
  /\ tick[t].pc = "pool"
  /\ wk[t][r].pc = "queued"
  /\ Cardinality(Running(t)) < MaxConcurrency
  /\ wk' = [wk EXCEPT ![t][r].pc = "insert",
                      ![t][r].status = EndpointStatus(r),
                      ![t][r].finished_at = clock,
                      ![t][r].next_run =
                         compute_next_run_scheduled(wk[t][r].routine, clock)]
  /\ UNCHANGED <<clock, faults, starts, rest, routines, runs, tick, manual, race, adv, probe, ws, hdr>>

CountRun(t, r) ==
  IF race[r].on THEN [race EXCEPT ![r].ran = @ \cup {t}] ELSE race

\* An insert_run of the outcome whose error goes to the handler.
worker_insert_run_or_raise(t, r, ok) ==
  /\ wk[t][r].pc = "insert"
  /\ StoreAnswers(ok)
  /\ IF ok
     THEN /\ runs' = insert_run(r, "SCHEDULE", wk[t][r].status,
                                wk[t][r].finished_at)
          /\ race' = CountRun(t, r)
          /\ wk' = [wk EXCEPT ![t][r].pc = "finish", ![t][r].inserted = @ + 1]
     ELSE /\ wk' = [wk EXCEPT ![t][r].pc = "except"]
          /\ UNCHANGED <<runs, race>>
  /\ UNCHANGED <<clock, starts, rest, routines, tick, manual, adv, probe, ws, hdr>>

\* _run_one_scheduled: insert_run of the outcome, logged and ignored on error.
worker_insert_run(t, r, ok) ==
  /\ wk[t][r].pc = "insert"
  /\ StoreAnswers(ok)
  /\ IF ok
     THEN /\ runs' = insert_run(r, "SCHEDULE", wk[t][r].status,
                                wk[t][r].finished_at)
          /\ race' = CountRun(t, r)
     ELSE UNCHANGED <<runs, race>>
  /\ wk' = [wk EXCEPT ![t][r].pc = "finish",
                      ![t][r].inserted = IF ok THEN @ + 1 ELSE @]
  /\ UNCHANGED <<clock, starts, rest, routines, tick, manual, adv, probe, ws, hdr>>

\* _run_one_scheduled: finish_scheduled_run; an error goes to the handler.
worker_finish(t, r, ok) ==
  /\ wk[t][r].pc = "finish"
  /\ StoreAnswers(ok)
  /\ IF ok
     THEN /\ routines' = [routines EXCEPT ![r] =
                            finish_scheduled_run(routines[r], tick[t].locked_by,
                                                 wk[t][r].finished_at,
                                                 wk[t][r].next_run)]
          /\ wk' = [wk EXCEPT ![t][r].pc = "release",
                              ![t][r].finished_at = NULL,
                              ![t][r].next_run = NULL,
                              ![t][r].cleared =
                                 OwnedBy(routines[r], tick[t].locked_by)]
     ELSE /\ wk' = [wk EXCEPT ![t][r].pc = "except",
                              ![t][r].finished_at = NULL,
                              ![t][r].next_run = NULL]
          /\ UNCHANGED routines
  /\ UNCHANGED <<clock, starts, rest, runs, tick, manual, race, adv, probe, ws, hdr>>

\* _run_one_scheduled: the except handler, a best-effort FAIL run, re-raise.
worker_except(t, r, ok) ==
  /\ wk[t][r].pc = "except"
  /\ StoreAnswers(ok)
  /\ IF ok
     THEN /\ runs' = insert_run(r, "SCHEDULE", "FAIL", clock)
          /\ race' = CountRun(t, r)
     ELSE UNCHANGED <<runs, race>>
  /\ wk' = [wk EXCEPT ![t][r].pc = "release", ![t][r].raised = TRUE,
                      ![t][r].inserted = IF ok THEN @ + 1 ELSE @]
  /\ UNCHANGED <<clock, starts, rest, routines, tick, manual, adv, probe, ws, hdr>>

\* _run_one_scheduled: the finally block, a best-effort release_lock.
worker_release(t, r, ok) ==
  /\ wk[t][r].pc = "release"
  /\ StoreAnswers(ok)
  /\ IF ok
     THEN routines' = [routines EXCEPT ![r] =
                         release_lock(routines[r], tick[t].locked_by)]
     ELSE UNCHANGED routines
  /\ wk' = [wk EXCEPT ![t][r] =
               [IdleWorker EXCEPT !.pc = "done", !.raised = wk[t][r].raised]]
  /\ UNCHANGED <<clock, starts, rest, runs, tick, manual, race, adv, probe, ws, hdr>>

\* A tick that returns at the first completed future, its pool not waited for.
scheduler_return_at_first(t) ==
  /\ tick[t].pc = "pool"
  /\ \E r \in DOMAIN routines : wk[t][r].pc = "done"
  /\ tick' = [tick EXCEPT ![t] = IdleTick]
  /\ wk' = [wk EXCEPT ![t] =
               [r \in DOMAIN routines |->
                  IF wk[t][r].pc = "done" THEN IdleWorker ELSE wk[t][r]]]
  /\ UNCHANGED <<clock, faults, starts, rest, routines, runs, manual, race, adv, probe, ws, hdr>>

\* scheduler(): every future completed, the pool is left, the tick returns.
scheduler_join(t) ==
  /\ tick[t].pc = "pool"
  /\ \A r \in DOMAIN routines : wk[t][r].pc \in {"none", "done", "dead"}
  /\ tick' = [tick EXCEPT ![t] =
                IF \E r \in DOMAIN routines : wk[t][r].raised
                THEN logged("worker error")
                ELSE IdleTick]
  /\ wk' = [wk EXCEPT ![t] = [r \in DOMAIN routines |-> IdleWorker]]
  /\ UNCHANGED <<clock, faults, starts, rest, routines, runs, manual, race, adv, probe, ws, hdr>>

\* The process running tick t dies: nothing of it runs any more. A worker
\* that had got a row and had not released it stays as "dead", with the row
\* it got.
Die(t) ==
  /\ tick[t].pc # "idle"
  /\ tick' = [tick EXCEPT ![t] = IdleTick]
  /\ wk' = [wk EXCEPT ![t] =
               [r \in DOMAIN routines |->
                  IF wk[t][r].pc \in {"none", "done"}
                  THEN IdleWorker
                  ELSE [IdleWorker EXCEPT !.pc = "dead",
                                          !.routine = wk[t][r].routine]]]
  /\ UNCHANGED <<clock, faults, starts, rest, routines, runs, manual, race, adv, probe, ws, hdr>>

(* ------------------------------ REST ---------------------------------- *)

Request ==
  /\ rest < MaxRest
  /\ rest' = rest + 1

\* POST /routines
create_routine(r, interval) ==
  /\ Request
  /\ routines[r].st = "absent"
  /\ routines' = [routines EXCEPT ![r] =
                    NewRoutine(interval, to_minute(clock + Minutes(interval)))]
  /\ UNCHANGED <<clock, faults, starts, runs, tick, wk, manual, race, adv, probe, ws, hdr>>

\* PATCH /routines/{id} with is_active
patch_is_active(r, b) ==
  /\ Request
  /\ routines[r].st = "live"
  /\ routines[r].is_active # b
  /\ routines' = [routines EXCEPT ![r].is_active = b,
                                   ![r].updated_at = clock]
  /\ UNCHANGED <<clock, faults, starts, runs, tick, wk, manual, race, adv, probe, ws, hdr>>

\* PATCH /routines/{id} with interval_minutes
patch_interval(r, interval) ==
  /\ Request
  /\ routines[r].st = "live"
  /\ routines' = [routines EXCEPT
                    ![r].interval_minutes = interval,
                    ![r].next_run_at = to_minute(clock + Minutes(interval)),
                    ![r].updated_at = clock]
  /\ UNCHANGED <<clock, faults, starts, runs, tick, wk, manual, race, adv, probe, ws, hdr>>

\* DELETE /routines/{id}
delete_routine(r) ==
  /\ Request
  /\ routines[r].st = "live"
  /\ routines' = [routines EXCEPT ![r] = [NoRoutine EXCEPT !.st = "deleted"]]
  /\ UNCHANGED <<clock, faults, starts, runs, tick, wk, manual, race, adv, probe, ws, hdr>>

\* POST /routines/{id}/run: get_routine (404 when absent) and the probe,
\* which touches no store state
run_routine_probe(r) ==
  /\ manual.pc = "idle"
  /\ Request
  /\ routines[r].st = "live"
  /\ manual' = [pc |-> "insert", routine_id |-> r,
                status |-> EndpointStatus(r), finished_at |-> clock]
  /\ UNCHANGED <<clock, faults, starts, routines, runs, tick, wk, race, adv, probe, ws, hdr>>

\* POST /routines/{id}/run: insert_run, 500 on error
run_routine_insert(ok) ==
  /\ manual.pc = "insert"
  /\ StoreAnswers(ok)
  /\ IF ok
     THEN /\ runs' = insert_run(manual.routine_id, "MANUAL", manual.status,
                                manual.finished_at)
          /\ manual' = [manual EXCEPT !.pc = "touch"]
     ELSE /\ manual' = IdleManual
          /\ UNCHANGED runs
  /\ UNCHANGED <<clock, starts, rest, routines, tick, wk, race, adv, probe, ws, hdr>>

\* POST /routines/{id}/run: touch_last_run, ignored on error
run_routine_touch(ok) ==
  /\ manual.pc = "touch"
  /\ StoreAnswers(ok)
  /\ IF ok
     THEN routines' = [routines EXCEPT ![manual.routine_id] =
                         touch_last_run(routines[manual.routine_id],
                                        manual.finished_at)]
     ELSE UNCHANGED routines
  /\ manual' = IdleManual
  /\ UNCHANGED <<clock, starts, rest, runs, tick, wk, race, adv, probe, ws, hdr>>

(* ------------------------------ Spec ---------------------------------- *)

\* The steps of a started scheduler invocation and of its workers, in a
\* process that stays alive.
TickSteps ==
  \/ \E t \in DOMAIN tick, echo \in BOOLEAN, ok \in BOOLEAN :
       try_lock_patch(t, echo, ok)
  \/ \E t \in DOMAIN tick, ok \in BOOLEAN : try_lock_check(t, ok)
  \/ \E t \in DOMAIN tick, r \in DOMAIN routines : worker_probe(t, r)
  \/ \E t \in DOMAIN tick, r \in DOMAIN routines, ok \in BOOLEAN :
       worker_insert_run(t, r, ok)
  \/ \E t \in DOMAIN tick, r \in DOMAIN routines, ok \in BOOLEAN :
       worker_finish(t, r, ok)
  \/ \E t \in DOMAIN tick, r \in DOMAIN routines, ok \in BOOLEAN :
       worker_except(t, r, ok)
  \/ \E t \in DOMAIN tick, r \in DOMAIN routines, ok \in BOOLEAN :
       worker_release(t, r, ok)
  \/ \E t \in DOMAIN tick : scheduler_join(t)

\* The steps of a started scheduler invocation and of its workers.
SchedSteps ==
  \/ TickSteps
  \/ \E t \in DOMAIN tick : Die(t)

\* The REST surface.
RestNext ==
  \/ \E r \in DOMAIN routines, i \in Intervals : create_routine(r, i)
  \/ \E r \in DOMAIN routines, b \in BOOLEAN : patch_is_active(r, b)
  \/ \E r \in DOMAIN routines, i \in Intervals : patch_interval(r, i)
  \/ \E r \in DOMAIN routines : delete_routine(r)
  \/ \E r \in DOMAIN routines : run_routine_probe(r)
  \/ \E ok \in BOOLEAN : run_routine_insert(ok)
  \/ \E ok \in BOOLEAN : run_routine_touch(ok)

\* Two tick slots over one routine: invocations of scheduler() overlap, on
\* one instance or on two.
Next ==
  \/ Advance
  \/ \E t \in DOMAIN tick, ok \in BOOLEAN :
       \E i \in InstancesOf(t) : scheduler_start(t, i, ok)
  \/ SchedSteps

Spec == Init /\ [][Next]_vars

\* The steps of a started scheduler invocation when the store answers every
\* call.
LiveSteps ==
  \/ \E t \in DOMAIN tick, echo \in BOOLEAN : try_lock_patch(t, echo, TRUE)
  \/ \E t \in DOMAIN tick : try_lock_check(t, TRUE)
  \/ \E t \in DOMAIN tick, r \in DOMAIN routines : worker_probe(t, r)
  \/ \E t \in DOMAIN tick, r \in DOMAIN routines : worker_insert_run(t, r, TRUE)
  \/ \E t \in DOMAIN tick, r \in DOMAIN routines : worker_finish(t, r, TRUE)
  \/ \E t \in DOMAIN tick, r \in DOMAIN routines : worker_release(t, r, TRUE)
  \/ \E t \in DOMAIN tick : scheduler_join(t)

\* finish_scheduled_run fails: the handler runs and the finally block is the
\* one that releases the lease.
FinishFails ==
  \/ \E t \in DOMAIN tick, r \in DOMAIN routines : worker_finish(t, r, FALSE)
  \/ \E t \in DOMAIN tick, r \in DOMAIN routines, ok \in BOOLEAN :
       worker_except(t, r, ok)

\* The REST surface and one scheduler invocation, over one routine that
\* exists and one id that create_routine issues. Of the scheduler's store
\* calls, finish_scheduled_run and the handler's insert_run can fail.
InitRest ==
  InitWith([r \in Routines |->
              IF r = "r1" THEN NewRoutine(MinInterval, 0) ELSE NoRoutine],
           {"t1"})

NextRest ==
  \/ Advance
  \/ starts = 0 /\ scheduler_start("t1", "iA", TRUE)
  \/ LiveSteps
  \/ FinishFails
  \/ RestNext

SpecRest == InitRest /\ [][NextRest]_vars

\* N callers inside try_lock_routine for the same unlocked routine: each has
\* its own locked_by and its own clock reading, at most MaxSkew apart.
Callers == {"t1", "t2", "t3"}

InitLock ==
  /\ clock = 0
  /\ faults = 0
  /\ starts = 0
  /\ rest = 0
  /\ routines = [r \in {"r1"} |-> NewRoutine(MinInterval, 0)]
  /\ runs = <<>>
  /\ tick \in [Callers ->
                 {[pc |-> "lock", locked_by |-> i, now |-> n,
                   candidates |-> <<"r1">>, idx |-> 1, matched |-> FALSE] :
                    i \in Instances, n \in 0..MaxSkew}]
  /\ wk = [t \in Callers |-> [r \in {"r1"} |-> IdleWorker]]
  /\ manual = IdleManual
  /\ race = [r \in {"r1"} |-> NoRace]
  /\ adv = NoAdv
  /\ probe = NoProbe
  /\ ws = NoWorkspaces
  /\ hdr = NoHeaders

NextLock ==
  \/ \E t \in DOMAIN tick, echo \in BOOLEAN, ok \in BOOLEAN :
       try_lock_patch(t, echo, ok)
  \/ \E t \in DOMAIN tick, ok \in BOOLEAN : try_lock_check(t, ok)

SpecLock == InitLock /\ [][NextLock]_vars

\* The schedule advance applied to one routine and one clock reading.
ClockAnchors ==
  {a \in 0..MaxAnchor : (a % SecondsPerMinute) \in {0, SecondsPerMinute \div 2}}

ClockNows ==
  {n \in 0..MaxNow : (n % SecondsPerMinute) \in {0, MinInterval + MinInterval,
                                                 SecondsPerMinute - 1}}

ClockIntervals == {MinInterval, MinInterval + 2}

InitClock ==
  /\ clock = 0
  /\ faults = 0
  /\ starts = 0
  /\ rest = 0
  /\ routines = [r \in {"r1"} |-> NewRoutine(MinInterval, 0)]
  /\ runs = <<>>
  /\ tick = [t \in {"t1"} |-> IdleTick]
  /\ wk = [t \in {"t1"} |-> [r \in {"r1"} |-> IdleWorker]]
  /\ manual = IdleManual
  /\ race = [r \in {"r1"} |-> NoRace]
  /\ adv \in [anchor : ClockAnchors \cup {NULL}, interval : ClockIntervals,
              now : ClockNows, out : {NULL}]
  /\ probe = NoProbe
  /\ ws = NoWorkspaces
  /\ hdr = NoHeaders

\* next_run = _compute_next_run_scheduled(routine, now_dt)
schedule_advance ==
  /\ adv.out = NULL
  /\ adv' = [adv EXCEPT !.out =
               compute_next_run_scheduled(
                 [interval_minutes |-> adv.interval, next_run_at |-> adv.anchor],
                 adv.now)]
  /\ UNCHANGED <<clock, faults, starts, rest, routines, runs, tick, wk, manual,
                 race, probe, ws, hdr>>

NextClock == schedule_advance

SpecClock == InitClock /\ [][NextClock]_vars

\* Ticks keep occurring and the store answers: the clock advances, a tick
\* starts whenever something is due (up to MaxStarts ticks), and every step
\* of a started tick that is not a death is eventually taken.
StartOk ==
  \E t \in DOMAIN tick : \E i \in InstancesOf(t) : scheduler_start(t, i, TRUE)

\* A death after which a tick can still start once the leases of the dead
\* process have expired.
DieRecoverably ==
  \E t \in DOMAIN tick :
    /\ starts < MaxStarts
    /\ \E s \in Samples : s > tick[t].now + LeaseSeconds
    /\ Die(t)

NextLive ==
  \/ Advance
  \/ StartOk
  \/ LiveSteps
  \/ DieRecoverably

SpecLive ==
  /\ Init
  /\ [][NextLive]_vars
  /\ WF_vars(Advance)
  /\ WF_vars(StartOk)
  /\ WF_vars(LiveSteps)

\* The scheduler after an outage: routine r1 has been due since the origin
\* and the clock reads one to MaxBacklog whole intervals later, on the timer
\* period or a lease past it. The clock stands still while the ticks run.
CatchUpNows ==
  {k * Minutes(MinInterval) + o : k \in 1..MaxBacklog, o \in SampleOffsets}

InitCatchUp ==
  /\ clock \in CatchUpNows
  /\ faults = 0
  /\ starts = 0
  /\ rest = 0
  /\ routines = [r \in {"r1"} |-> NewRoutine(MinInterval, 0)]
  /\ runs = <<>>
  /\ tick = [t \in Ticks |-> IdleTick]
  /\ wk = [t \in Ticks |-> [r \in {"r1"} |-> IdleWorker]]
  /\ manual = IdleManual
  /\ race = [r \in {"r1"} |-> NoRace]
  /\ adv = NoAdv
  /\ probe = NoProbe
  /\ ws = NoWorkspaces
  /\ hdr = NoHeaders

NextCatchUp ==
  \/ \E t \in DOMAIN tick, ok \in BOOLEAN :
       \E i \in InstancesOf(t) : scheduler_start(t, i, ok)
  \/ SchedSteps

SpecCatchUp == InitCatchUp /\ [][NextCatchUp]_vars

\* One invocation after another of scheduler() on one instance, with two
\* routines due from the start; the clock stands still.
InitBatch ==
  /\ InitWith([r \in Routines |-> NewRoutine(MinInterval, 0)], {"t1"})

NextBatch ==
  \/ \E ok \in BOOLEAN : scheduler_start("t1", "iA", ok)
  \/ TickSteps

SpecBatch == InitBatch /\ [][NextBatch]_vars

\* The same tick with every call of it and of its workers returning, with a
\* result or with an error: a step that can be taken is taken.
SpecPool ==
  /\ InitBatch
  /\ [][NextBatch]_vars
  /\ WF_vars(TickSteps)

(* ------------------------------ prober -------------------------------- *)

\* Text is a sequence of characters. An environment variable is unset or has
\* a text value; os.getenv and os.environ.get return None for an unset one.
Unset == [set |-> FALSE, value |-> <<>>]
EnvValue(text) == [set |-> TRUE, value |-> text]

\* Python truthiness of an Optional[str]: neither None nor "".
Truthy(v) == v.set /\ v.value # <<>>

\* The scheduler's and the handlers' variables, at rest.
SchedulerAtRest ==
  /\ clock = 0
  /\ faults = 0
  /\ starts = 0
  /\ rest = 0
  /\ routines = [r \in {"r1"} |-> NewRoutine(MinInterval, 0)]
  /\ runs = <<>>
  /\ tick = [t \in {"t1"} |-> IdleTick]
  /\ wk = [t \in {"t1"} |-> [r \in {"r1"} |-> IdleWorker]]
  /\ manual = IdleManual
  /\ race = [r \in {"r1"} |-> NoRace]
  /\ adv = NoAdv

schedVars ==
  <<clock, faults, starts, rest, routines, runs, tick, wk, manual, race, adv>>

\* float(text): defined when text is a decimal literal, ValueError otherwise.
Digits == {"0", "1", "2", "3", "4", "5", "6", "7", "8", "9"}

IsFloatLiteral(text) ==
  /\ \A i \in DOMAIN text : text[i] \in Digits \cup {"."}
  /\ \E i \in DOMAIN text : text[i] \in Digits
  /\ Cardinality({i \in DOMAIN text : text[i] = "."}) <= 1

\* os.getenv("HTTP_TIMEOUT_SECONDS") or os.getenv("ROUTINE_TIMEOUT_SECONDS")
\* or "8"
TimeoutText(env) ==
  IF Truthy(env.HTTP_TIMEOUT_SECONDS) THEN env.HTTP_TIMEOUT_SECONDS.value
  ELSE IF Truthy(env.ROUTINE_TIMEOUT_SECONDS)
       THEN env.ROUTINE_TIMEOUT_SECONDS.value
       ELSE <<"8">>

\* _get_secret_value(secret_ref). A name is a sequence of parts, so that the
\* prefix test and the prefixing are computed.
SecretPrefix == "SECRET_"

get_secret_value(secret_ref, env) ==
  IF secret_ref = <<>>
  THEN Unset
  ELSE LET env_name == IF secret_ref[1] = SecretPrefix
                       THEN secret_ref
                       ELSE <<SecretPrefix>> \o secret_ref
       IN IF env_name = env.secret_name THEN env.secret ELSE Unset

\* The header the prober injects.
AuthorizationKey ==
  <<"A", "u", "t", "h", "o", "r", "i", "z", "a", "t", "i", "o", "n">>

Bearer(token) == <<"B", "e", "a", "r", "e", "r", " ">> \o token

NoHeadersJson == [k \in {} |-> <<>>]

\* A RunOutcome, or the exception that left _execute_http_routine.
Raised ==
  [raised |-> TRUE, requested |-> FALSE, sent |-> NoHeadersJson,
   status |-> "none", http_status |-> NULL, error_message |-> "none"]

RunOutcome(requested, sent, status, http_status, error_message) ==
  [raised |-> FALSE, requested |-> requested, sent |-> sent,
   status |-> status, http_status |-> http_status,
   error_message |-> error_message]

\* r = httpx.request(...) and what follows it; net is what the network did.
AfterRequest(headers, net) ==
  IF net.kind = "timeout"
  THEN RunOutcome(TRUE, headers, "FAIL", NULL, "timeout")
  ELSE IF net.kind = "error"
  THEN RunOutcome(TRUE, headers, "FAIL", NULL, "exception")
  ELSE IF 200 <= net.status /\ net.status < 300
  THEN RunOutcome(TRUE, headers, "SUCCESS", net.status, "none")
  ELSE RunOutcome(TRUE, headers, "FAIL", net.status, "http_error")

execute_http_routine(routine, env, net) ==
  IF ~IsFloatLiteral(TimeoutText(env))
  THEN Raised
  ELSE IF routine.auth_mode = "SECRET_REF"
       THEN LET token == get_secret_value(routine.secret_ref, env)
            IN IF ~Truthy(token)
               THEN RunOutcome(FALSE, NoHeadersJson, "FAIL", NULL,
                               "missing_secret_ref_value")
               ELSE AfterRequest(
                      [k \in DOMAIN routine.headers_json \cup {AuthorizationKey}
                         |-> IF k = AuthorizationKey
                             THEN Bearer(token.value)
                             ELSE routine.headers_json[k]],
                      net)
       ELSE AfterRequest(routine.headers_json, net)

\* The values of the environment and of the routine that a probe is given.
TimeoutChars == {"8", ".", "s"}

TimeoutTexts ==
  UNION {[1..n -> TimeoutChars] : n \in 0..MaxTimeoutLen}

TimeoutSettings == {Unset} \cup {EnvValue(t) : t \in TimeoutTexts}

SecretNames == {<<"GITHUB_TOKEN">>, <<SecretPrefix, "GITHUB_TOKEN">>}

SecretRefs == {<<>>} \cup SecretNames \cup {<<"OTHER">>}

SecretSettings == {Unset, EnvValue(<<>>), EnvValue(<<"t">>)}

NetOutcomes ==
  {[kind |-> "response", status |-> c] : c \in {200, 204, 301, 404, 500}}
    \cup {[kind |-> "timeout", status |-> NULL],
          [kind |-> "error", status |-> NULL]}

SampleHeaders ==
  {NoHeadersJson, [k \in {<<"X", "-", "I", "d">>} |-> <<"1">>]}

InitProbe ==
  /\ SchedulerAtRest
  /\ probe \in
       [on : {TRUE},
        routine : [auth_mode : {"NONE", "SECRET_REF"}, secret_ref : SecretRefs,
                   headers_json : SampleHeaders],
        env : [HTTP_TIMEOUT_SECONDS : TimeoutSettings,
               ROUTINE_TIMEOUT_SECONDS : {Unset, EnvValue(<<"s">>)},
               secret_name : {<<SecretPrefix, "GITHUB_TOKEN">>},
               secret : SecretSettings],
        net : NetOutcomes,
        out : {[raised |-> FALSE, requested |-> FALSE, sent |-> NoHeadersJson,
                status |-> "pending", http_status |-> NULL,
                error_message |-> "none"]}]
  /\ ws = NoWorkspaces
  /\ hdr = NoHeaders

\* result = _execute_http_routine(routine)
execute_probe ==
  /\ probe.on
  /\ probe.out.status = "pending"
  /\ probe' = [probe EXCEPT !.out =
                 execute_http_routine(probe.routine, probe.env, probe.net)]
  /\ UNCHANGED <<schedVars, ws, hdr>>

NextProbe == execute_probe

SpecProbe == InitProbe /\ [][NextProbe]_vars

(* ----------------------------- workspaces ------------------------------ *)

\* Requests of one owner, each of which calls get_or_create_workspace_id.
\* ws.rows is the set of ids of the owner's rows in table workspaces; ids
\* are issued in order. pc: "idle", "create" (the lookup gave no row),
\* "returned", "raised".
Requesters == {"q1", "q2"}

IdleCall == [pc |-> "idle", id |-> 0]

InitWorkspace ==
  /\ SchedulerAtRest
  /\ probe = NoProbe
  /\ ws = [on |-> TRUE, rows |-> {}, calls |-> 0,
           call |-> [q \in Requesters |-> IdleCall]]
  /\ hdr = NoHeaders

\* get_or_create_workspace_id: GET workspaces?owner_id=eq.<owner>&limit=1,
\* with no order. A 200 with a row returns that row's id; a 200 without rows
\* and every other status go on to the POST.
workspace_lookup(q, ok) ==
  /\ ws.on
  /\ ws.call[q].pc \in {"idle", "returned", "raised"}
  /\ ws.calls < MaxCalls
  /\ \/ /\ ok
        /\ ws.rows # {}
        /\ \E id \in ws.rows :
             ws' = [ws EXCEPT !.calls = @ + 1,
                              !.call[q] = [pc |-> "returned", id |-> id]]
     \/ /\ ~ok \/ ws.rows = {}
        /\ ws' = [ws EXCEPT !.calls = @ + 1,
                            !.call[q] = [pc |-> "create", id |-> 0]]
  /\ UNCHANGED <<schedVars, probe, hdr>>

\* get_or_create_workspace_id: POST workspaces, RuntimeError unless 200/201.
workspace_create(q, ok) ==
  /\ ws.on
  /\ ws.call[q].pc = "create"
  /\ IF ok
     THEN LET id == Cardinality(ws.rows) + 1
          IN ws' = [ws EXCEPT !.rows = @ \cup {id},
                              !.call[q] = [pc |-> "returned", id |-> id]]
     ELSE ws' = [ws EXCEPT !.call[q] = [pc |-> "raised", id |-> 0]]
  /\ UNCHANGED <<schedVars, probe, hdr>>

NextWorkspace ==
  \/ \E q \in Requesters, ok \in BOOLEAN : workspace_lookup(q, ok)
  \/ \E q \in Requesters, ok \in BOOLEAN : workspace_create(q, ok)

SpecWorkspace == InitWorkspace /\ [][NextWorkspace]_vars

(* ------------------------------ headers -------------------------------- *)

\* Characters. str.lower and str.isalnum work on Unicode: a letter outside
\* ASCII is alphanumeric too.
LowerLetters ==
  <<"a", "b", "c", "d", "e", "f", "g", "h", "i", "j", "k", "l", "m", "n", "o", "p", "q", "r", "s", "t", "u", "v", "w", "x", "y", "z">>
UpperLetters ==
  <<"A", "B", "C", "D", "E", "F", "G", "H", "I", "J", "K", "L", "M", "N", "O", "P", "Q", "R", "S", "T", "U", "V", "W", "X", "Y", "Z">>

NonAsciiLetters == {"é"}

Whitespace == {" ", "\t"}

ToLower ==
  [ch \in {UpperLetters[i] : i \in DOMAIN UpperLetters} |->
     LowerLetters[CHOOSE i \in DOMAIN UpperLetters : UpperLetters[i] = ch]]

ToUpper ==
  [ch \in {LowerLetters[i] : i \in DOMAIN LowerLetters} |->
     UpperLetters[CHOOSE i \in DOMAIN LowerLetters : LowerLetters[i] = ch]]

lower(ch) == IF ch \in DOMAIN ToLower THEN ToLower[ch] ELSE ch

upper(ch) == IF ch \in DOMAIN ToUpper THEN ToUpper[ch] ELSE ch

\* text.lower(), text.strip()
Lower(text) == [i \in DOMAIN text |-> lower(text[i])]

Strip(text) ==
  LET solid == {i \in DOMAIN text : text[i] \notin Whitespace}
  IN IF solid = {}
     THEN <<>>
     ELSE SubSeq(text,
                 CHOOSE i \in solid : \A j \in solid : i <= j,
                 CHOOSE i \in solid : \A j \in solid : j <= i)

AsciiAlnum ==
  {LowerLetters[i] : i \in DOMAIN LowerLetters}
    \cup {UpperLetters[i] : i \in DOMAIN UpperLetters} \cup Digits

isalnum(ch) == ch \in AsciiAlnum \cup NonAsciiLetters

\* The grave accent, which a string of this notation cannot hold.
GraveAccent == "U+0060"

\* allowed = set("!#$%&'*+-.^_`|~")
TokenPunctuation ==
  {"!", "#", "$", "%", "&", "'", "*", "+", "-", ".", "^", "_", GraveAccent,
   "|", "~"}

is_valid_header_name(name) ==
  \A i \in DOMAIN name : isalnum(name[i]) \/ name[i] \in TokenPunctuation

FORBIDDEN_HEADERS ==
  {<<"a", "u", "t", "h", "o", "r", "i", "z", "a", "t", "i", "o", "n">>,
   <<"c", "o", "o", "k", "i", "e">>,
   <<"s", "e", "t", "-", "c", "o", "o", "k", "i", "e">>,
   <<"x", "-", "a", "p", "i", "-", "k", "e", "y">>,
   <<"x", "-", "a", "u", "t", "h", "-", "t", "o", "k", "e", "n">>}

\* A validate_headers that looks for the key as given among the forbidden
\* names.
validate_headers_as_given(headers) ==
  \A k \in DOMAIN headers :
    LET nk == Lower(Strip(k))
        v == headers[k]
    IN /\ nk # <<>>
       /\ Len(nk) <= MAX_HEADER_NAME_LEN
       /\ is_valid_header_name(nk)
       /\ k \notin FORBIDDEN_HEADERS
       /\ Len(v) <= MAX_HEADER_VALUE_LEN
       /\ \A i \in DOMAIN v : v[i] \notin {"\n", "\r"}

\* validate_headers(headers) for a mapping of strings to strings: TRUE when
\* it returns, FALSE when it raises ValueError.
validate_headers(headers) ==
  \A k \in DOMAIN headers :
    LET nk == Lower(Strip(k))
        v == headers[k]
    IN /\ nk # <<>>
       /\ Len(nk) <= MAX_HEADER_NAME_LEN
       /\ is_valid_header_name(nk)
       /\ nk \notin FORBIDDEN_HEADERS
       /\ Len(v) <= MAX_HEADER_VALUE_LEN
       /\ \A i \in DOMAIN v : v[i] \notin {"\n", "\r"}

\* The header names and values that requests carry.
Repeat(ch, n) == [i \in 1..n |-> ch]

SampleWords ==
  FORBIDDEN_HEADERS
    \cup {<<"a", "c", "c", "e", "p", "t">>, <<>>, <<"a", " ", "b">>, <<"a", "(">>, <<"é">>,
          Repeat("a", MAX_HEADER_NAME_LEN),
          Repeat("a", MAX_HEADER_NAME_LEN + 1)}

Title(text) == [i \in DOMAIN text |-> IF i = 1 THEN upper(text[i]) ELSE text[i]]

Upper(text) == [i \in DOMAIN text |-> upper(text[i])]

Pads == {<<>>, <<" ">>}

SampleKeys ==
  {p \o w \o q :
     p \in Pads, q \in Pads,
     w \in SampleWords \cup {Title(x) : x \in SampleWords}
             \cup {Upper(x) : x \in SampleWords}}

SampleValues ==
  {<<>>, <<"1">>, <<"a", "\n", "b">>, <<"a", "\r">>,
   Repeat("x", MAX_HEADER_VALUE_LEN), Repeat("x", MAX_HEADER_VALUE_LEN + 1)}

\* The mappings of at most n of the keys to the values.
RECURSIVE MappingsOver(_, _, _)
MappingsOver(keys, values, n) ==
  IF n = 0
  THEN {NoHeadersJson}
  ELSE LET less == MappingsOver(keys, values, n - 1)
       IN less \cup {(k :> v) @@ m : k \in keys, v \in values, m \in less}

Mappings(n) == MappingsOver(SampleKeys, SampleValues, n)

\* The header names that create and PATCH requests are sent with: the
\* forbidden names and three others, in lower case, capitalised and in upper
\* case, and Authorization with a space before or after it.
RequestWords == FORBIDDEN_HEADERS \cup {<<"a", "c", "c", "e", "p", "t">>, <<"x", "-", "i", "d">>, <<"x", "-", "t", "r", "a", "c", "e">>}

RequestKeys ==
  RequestWords \cup {Title(w) : w \in RequestWords}
    \cup {Upper(w) : w \in RequestWords}
    \cup {<<" ">> \o AuthorizationKey, AuthorizationKey \o <<" ">>}

RequestMappings(n) == MappingsOver(RequestKeys, {<<"1">>}, n)

\* validate_headers on its own.
InitValidate ==
  /\ SchedulerAtRest
  /\ probe = NoProbe
  /\ ws = NoWorkspaces
  /\ hdr \in [on : {TRUE}, headers : Mappings(MaxHeaders), out : {"pending"}]

validate ==
  /\ hdr.on
  /\ hdr.out = "pending"
  /\ hdr' = [hdr EXCEPT !.out = IF validate_headers(hdr.headers)
                                THEN "accepted"
                                ELSE "rejected"]
  /\ UNCHANGED <<schedVars, probe, ws>>

NextValidate == validate

SpecValidate == InitValidate /\ [][NextValidate]_vars

\* The headers_json of one routine, from its creation on, and the headers of
\* the last probe of it.
InitHeaders ==
  /\ SchedulerAtRest
  /\ probe = NoProbe
  /\ ws = NoWorkspaces
  /\ hdr = [on |-> TRUE, st |-> "absent", headers_json |-> NoHeadersJson,
            sent |-> NoHeadersJson]

\* POST /routines: validate_headers(data.headers_json), 400 on ValueError,
\* else insert_routine with headers_json as given.
create_routine_headers(headers) ==
  /\ hdr.on
  /\ hdr.st = "absent"
  /\ validate_headers(headers)
  /\ hdr' = [hdr EXCEPT !.st = "live", !.headers_json = headers]
  /\ UNCHANGED <<schedVars, probe, ws>>

\* PATCH /routines/{id} with headers_json: validate_headers, 400 on
\* ValueError, else update_routine with headers_json as given.
patch_routine_headers(headers) ==
  /\ hdr.on
  /\ hdr.st = "live"
  /\ validate_headers(headers)
  /\ hdr' = [hdr EXCEPT !.headers_json = headers]
  /\ UNCHANGED <<schedVars, probe, ws>>

\* A probe of the routine as stored, with either auth_mode and with its
\* secret set or not; hdr.sent is what httpx.request was given.
probe_stored(auth_mode, secret) ==
  /\ hdr.on
  /\ hdr.st = "live"
  /\ hdr' = [hdr EXCEPT !.sent =
               execute_http_routine(
                 [auth_mode |-> auth_mode, secret_ref |-> <<"GITHUB_TOKEN">>,
                  headers_json |-> hdr.headers_json],
                 [HTTP_TIMEOUT_SECONDS |-> Unset,
                  ROUTINE_TIMEOUT_SECONDS |-> Unset,
                  secret_name |-> <<SecretPrefix, "GITHUB_TOKEN">>,
                  secret |-> secret],
                 [kind |-> "response", status |-> 200]).sent]
  /\ UNCHANGED <<schedVars, probe, ws>>

NextHeaders ==
  \/ \E h \in RequestMappings(MaxHeaders) : create_routine_headers(h)
  \/ \E h \in RequestMappings(MaxHeaders) : patch_routine_headers(h)
  \/ \E a \in {"NONE", "SECRET_REF"}, v \in SecretSettings : probe_stored(a, v)

SpecHeaders == InitHeaders /\ [][NextHeaders]_vars

(* ---------------------------- secret_ref ------------------------------- *)

\* auth_mode and secret_ref of one routine, from its creation on. An
\* Optional[str] is Unset (None, or a field the body leaves out) or a text.
\* hdr.request and hdr.status are the body and the answer of the last request.
SecretRefValues ==
  {Unset, EnvValue(<<>>), EnvValue(<<"GITHUB_TOKEN">>), EnvValue(<<"OTHER">>)}

NotGiven == "not given"

NoAuthRow ==
  [st |-> "absent", auth_mode |-> "NONE", secret_ref |-> Unset,
   request |-> [auth_mode |-> NotGiven, secret_ref |-> Unset], status |-> 0]

InitAuth ==
  /\ SchedulerAtRest
  /\ probe = NoProbe
  /\ ws = NoWorkspaces
  /\ hdr = [on |-> TRUE, rows |-> [r \in Routines |-> NoAuthRow]]

\* POST /routines: RoutineCreate gives auth_mode its default, and the payload
\* of insert_routine carries auth_mode and secret_ref as the body has them.
create_routine_auth(r, auth_mode, secret_ref) ==
  /\ hdr.on
  /\ hdr.rows[r].st = "absent"
  /\ hdr' = [hdr EXCEPT
               !.rows[r] =
                 [st |-> "live",
                  auth_mode |-> IF auth_mode = NotGiven THEN "NONE" ELSE auth_mode,
                  secret_ref |-> secret_ref,
                  request |-> [auth_mode |-> auth_mode, secret_ref |-> secret_ref],
                  status |-> 201]]
  /\ UNCHANGED <<schedVars, probe, ws>>

\* PATCH /routines/{id}: changes leaves out what the body leaves out or gives
\* as null; 400 when changes.get("auth_mode") == "SECRET_REF" and not
\* changes.get("secret_ref"); else update_routine(changes).
patch_routine_auth(r, auth_mode, secret_ref) ==
  /\ hdr.on
  /\ hdr.rows[r].st = "live"
  /\ IF auth_mode = "SECRET_REF" /\ ~Truthy(secret_ref)
     THEN hdr' = [hdr EXCEPT
                    !.rows[r].request = [auth_mode |-> auth_mode,
                                         secret_ref |-> secret_ref],
                    !.rows[r].status = 400]
     ELSE hdr' = [hdr EXCEPT
                    !.rows[r].auth_mode =
                      IF auth_mode = NotGiven THEN @ ELSE auth_mode,
                    !.rows[r].secret_ref =
                      IF secret_ref.set THEN secret_ref ELSE @,
                    !.rows[r].request = [auth_mode |-> auth_mode,
                                         secret_ref |-> secret_ref],
                    !.rows[r].status = 200]
  /\ UNCHANGED <<schedVars, probe, ws>>

NextAuth ==
  \/ \E r \in Routines, a \in {NotGiven, "NONE", "SECRET_REF"},
        v \in SecretRefValues : create_routine_auth(r, a, v)
  \/ \E r \in Routines, a \in {NotGiven, "NONE", "SECRET_REF"},
        v \in SecretRefValues : patch_routine_auth(r, a, v)

SpecAuth == InitAuth /\ [][NextAuth]_vars

(* ---------------------------- properties ------------------------------ *)

\* Worker (t, r) got routine r from try_lock_routine and has neither
\* finished nor released it.
Holds(t, r) == wk[t][r].pc \in {"locked", "queued", "insert", "finish", "except"}

\* Worker (t, r) is inside the lease window of the row it got.
InLease(t, r) == Holds(t, r) /\ clock < wk[t][r].routine.lock_until

\* C1: in every reachable state, for every routine, at most one worker that
\* got the routine from try_lock_routine and has not finished or released it
\* is inside its lease window.
C1_AtMostOneLiveLease ==
  \A r \in DOMAIN routines :
    Cardinality({t \in DOMAIN tick : InLease(t, r)}) <= 1

\* C2: when the ticks of two instances both got a routine from
\* list_due_routines before either leased it, at most one of them leases it
\* and at most one of them inserts a SCHEDULE run for it.
C2_RaceHasOneWinner ==
  \A r \in DOMAIN routines :
    race[r].on => Cardinality(race[r].leased) <= 1 /\ Cardinality(race[r].ran) <= 1

\* The callers whose try_lock_routine returned the row of r.
GotRow(r) == {t \in DOMAIN tick : wk[t][r].pc \in {"locked", "queued"}}

\* C3: of N concurrent calls to try_lock_routine for one unlocked routine, at
\* most one returns a row, and once every call has returned with the store
\* answering each of them, exactly one has.
C3_ExactlyOneRow ==
  \A r \in DOMAIN routines :
    /\ Cardinality(GotRow(r)) <= 1
    /\ (faults = 0 /\ \A t \in DOMAIN tick : tick[t].pc \notin {"lock", "check"})
         => Cardinality(GotRow(r)) = 1

\* C4: try_lock_routine returns a row only if its conditional update matched:
\* every row a tick holds comes from a call whose update matched.
C4_RowOnlyIfMatched ==
  \A t \in DOMAIN tick, r \in DOMAIN routines : Holds(t, r) => wk[t][r].matched

\* C5: in every reachable state, for every routine, lock_until is null if and
\* only if locked_by is null.
C5_LockFieldsPaired ==
  \A r \in DOMAIN routines :
    (routines[r].lock_until = NULL) <=> (routines[r].locked_by = NoOwner)

\* A routine leased by a worker that has got its row.
C5_Leased ==
  \E t \in DOMAIN tick, r \in DOMAIN routines :
    /\ Holds(t, r)
    /\ routines[r].lock_until = tick[t].now + LeaseSeconds
    /\ routines[r].locked_by = tick[t].locked_by

\* This step is worker (t, r)'s call of finish_scheduled_run.
FinishCall(t, r) ==
  wk[t][r].pc = "finish" /\ wk'[t][r].pc \in {"release", "except"}

\* This step is worker (t, r)'s call of release_lock.
ReleaseCall(t, r) == wk[t][r].pc = "release" /\ wk'[t][r].pc = "done"

\* C6: a call of finish_scheduled_run or release_lock that the store answers
\* and whose locked_by is not the routine's leaves the routine unchanged and
\* raises nothing.
C6_WrongOwnerIsNoOp ==
  [][\A t \in DOMAIN tick, r \in DOMAIN routines :
       (/\ FinishCall(t, r) \/ ReleaseCall(t, r)
        /\ faults' = faults
        /\ ~OwnedBy(routines[r], tick[t].locked_by))
       => /\ routines'[r] = routines[r]
          /\ wk'[t][r].pc # "except"
          /\ wk'[t][r].raised = wk[t][r].raised]_vars

\* A worker whose finish_scheduled_run returned without error while the
\* routine is leased to another owner and no finish has ever taken effect.
C6_FinishedWithWrongOwner ==
  \E t \in DOMAIN tick, r \in DOMAIN routines :
    /\ wk[t][r].pc = "release"
    /\ ~wk[t][r].raised
    /\ routines[r].locked_by \notin {NoOwner, tick[t].locked_by}
    /\ routines[r].lock_until > wk[t][r].routine.lock_until
    /\ routines[r].last_run_at = NULL

\* Worker (t, r) is stale: the lease in the store is a later one than the one
\* it got.
Stale(t, r) ==
  /\ routines[r].lock_until # NULL
  /\ routines[r].lock_until > wk[t][r].routine.lock_until

\* C7: a call of finish_scheduled_run or release_lock by a stale worker
\* leaves lock_until, locked_by and next_run_at of the fresh lease unchanged.
C7_StaleLeavesFreshLease ==
  [][\A t \in DOMAIN tick, r \in DOMAIN routines :
       ((FinishCall(t, r) \/ ReleaseCall(t, r)) /\ Stale(t, r))
       => /\ routines'[r].lock_until = routines[r].lock_until
          /\ routines'[r].locked_by = routines[r].locked_by
          /\ routines'[r].next_run_at = routines[r].next_run_at]_vars

\* The lease of r is the one a dead worker got, and no live worker has r.
Orphaned(r) ==
  /\ \E u \in DOMAIN tick :
       /\ wk[u][r].pc = "dead"
       /\ routines[r].locked_by = wk[u][r].routine.locked_by
       /\ routines[r].lock_until = wk[u][r].routine.lock_until
  /\ \A t \in DOMAIN tick : wk[t][r].pc \in {"none", "done", "dead"}

\* C8 (first part): the lease of a dead worker stays as it is until a
\* try_lock_routine whose now is later than its lock_until replaces it.
C8_OrphanStaysLeased ==
  [][\A r \in DOMAIN routines :
       Orphaned(r) =>
         \/ /\ routines'[r].lock_until = routines[r].lock_until
            /\ routines'[r].locked_by = routines[r].locked_by
            /\ \A t \in DOMAIN tick :
                 wk'[t][r].pc = "locked" \/ wk'[t][r].pc = "queued"
                   => tick[t].now > routines[r].lock_until
         \/ \E t \in DOMAIN tick :
              /\ tick[t].now > routines[r].lock_until
              /\ routines'[r].lock_until = tick[t].now + LeaseSeconds]_vars

\* C8 (second part): a tick that starts with now later than the lock_until of
\* an orphaned lease, the routine active and due, gets it from
\* list_due_routines.
C8_ExpiredOrphanIsListed ==
  [][\A t \in DOMAIN tick, r \in DOMAIN routines :
       (/\ Orphaned(r)
        /\ tick[t].pc = "idle"
        /\ tick'[t].pc = "lock"
        /\ tick'[t].now > routines[r].lock_until
        /\ routines[r].is_active
        /\ routines[r].next_run_at <= tick'[t].now + DueSlackSeconds)
       => InSeq(r, tick'[t].candidates)]_vars

\* C8 (conclusion): an orphaned routine is eventually probed again.
C8_OrphanRunsAgain ==
  \A r \in {"r1"} :
    Orphaned(r) ~> (\E t \in DOMAIN tick : wk[t][r].pc = "insert")

\* C9: the instant the schedule advance returns is strictly later than now.
C9_AdvanceIsAfterNow == adv.out # NULL => adv.out > adv.now

\* The result has zero seconds and is a whole positive multiple of the
\* interval after the anchor.
OnGrid ==
  /\ adv.out % SecondsPerMinute = 0
  /\ adv.out > adv.anchor
  /\ (adv.out - adv.anchor) % Minutes(adv.interval) = 0

\* C10 (as stated): for every routine that has a next_run_at, the instant the
\* schedule advance returns has zero seconds and differs from next_run_at by
\* a whole positive multiple of interval_minutes.
C10_OnGridOfAnyAnchor == (adv.out # NULL /\ adv.anchor # NULL) => OnGrid

\* C10 (amended): for every routine whose next_run_at is on a whole minute,
\* the instant the schedule advance returns has zero seconds and differs from
\* next_run_at by a whole positive multiple of interval_minutes; for every
\* routine, it has zero seconds.
C10_OnGridOfAlignedAnchor ==
  adv.out # NULL =>
    /\ adv.out % SecondsPerMinute = 0
    /\ (adv.anchor # NULL /\ adv.anchor % SecondsPerMinute = 0) => OnGrid

\* An advance from a minute-aligned anchor that skipped at least one slot.
C10_CaughtUp ==
  /\ adv.out # NULL
  /\ adv.anchor # NULL
  /\ adv.anchor % SecondsPerMinute = 0
  /\ adv.now % SecondsPerMinute # 0
  /\ adv.out > adv.anchor + Minutes(adv.interval)

\* The earliest slot anchor + m * step that is strictly after now.
EarliestSlotAfter(anchor, step, now) ==
  CHOOSE s \in {anchor + m * step : m \in 1..(MaxBacklog + 2)} :
    s > now /\ s - step <= now

\* C11: when a worker that probed its routine one or more whole intervals
\* after the routine's next_run_at finishes it, next_run_at becomes the
\* earliest slot anchor + m * interval strictly after the time of the probe,
\* and list_due_routines returns the routine for no cutoff before that slot.
C11_CatchUpCollapses ==
  [][\A t \in DOMAIN tick, r \in DOMAIN routines :
       (/\ FinishCall(t, r)
        /\ faults' = faults
        /\ OwnedBy(routines[r], tick[t].locked_by)
        /\ wk[t][r].finished_at >=
             wk[t][r].routine.next_run_at + Minutes(wk[t][r].routine.interval_minutes))
       => LET slot == EarliestSlotAfter(wk[t][r].routine.next_run_at,
                                        Minutes(wk[t][r].routine.interval_minutes),
                                        wk[t][r].finished_at)
          IN /\ routines'[r].next_run_at = slot
             /\ \A cutoff \in 0..(slot - 1) : ~IsDue(routines'[r], cutoff)]_vars

\* A routine finished two or more whole intervals after it was first due,
\* with next_run_at on the first slot after the run.
C11_CollapsedBacklog ==
  \E r \in DOMAIN routines :
    /\ routines[r].last_run_at >= 2 * Minutes(routines[r].interval_minutes)
    /\ routines[r].next_run_at > routines[r].last_run_at
    /\ routines[r].next_run_at - Minutes(routines[r].interval_minutes)
         <= routines[r].last_run_at

\* The indices of the SCHEDULE runs of routine r, and the latest of them.
ScheduleRuns(r) ==
  {i \in DOMAIN runs : runs[i].routine_id = r /\ runs[i].triggered_by = "SCHEDULE"}

LastScheduleRun(r) ==
  runs[CHOOSE i \in ScheduleRuns(r) : \A j \in ScheduleRuns(r) : j <= i]

\* No worker of routine r is between its insert_run and the end of its
\* finally block, and none died there.
Settled(r) ==
  \A t \in DOMAIN tick :
    wk[t][r].pc \notin {"finish", "except", "release", "dead"}

\* C12: once the workers of a routine have returned, next_run_at of a routine
\* with a SCHEDULE run is later than the finished_at of its latest SCHEDULE
\* run.
C12_NextRunAfterLastScheduleRun ==
  \A r \in DOMAIN routines :
    (routines[r].st = "live" /\ ScheduleRuns(r) # {} /\ Settled(r))
    => routines[r].next_run_at > LastScheduleRun(r).finished_at

C14_LeaseOnlyIfActive ==
  [][\A r \in DOMAIN routines :
       (/\ routines[r].st = "live"
        /\ routines'[r].lock_until # NULL
        /\ routines'[r].lock_until # routines[r].lock_until)
       => routines[r].is_active]_vars

\* C15: every step keeps the runs already inserted as they are, and a step
\* that inserts a run inserts it for a routine that exists at that step.
C15_RunsReferToExistingRoutine ==
  [][/\ Len(runs') >= Len(runs)
     /\ SubSeq(runs', 1, Len(runs)) = runs
     /\ \A i \in (Len(runs) + 1)..Len(runs') :
          routines[runs'[i].routine_id].st = "live"]_vars

\* C16: the prober returns for every routine and environment, and what it
\* returns has status SUCCESS or FAIL.
C16_ProberNeverRaises ==
  (probe.on /\ probe.out.status # "pending")
  => (~probe.out.raised /\ probe.out.status \in {"SUCCESS", "FAIL"})

\* The routine of the probe has auth_mode = SECRET_REF and its secret does not
\* resolve to a non-empty value.
SecretMissing ==
  /\ probe.routine.auth_mode = "SECRET_REF"
  /\ ~Truthy(get_secret_value(probe.routine.secret_ref, probe.env))

\* C17: a probe of a SECRET_REF routine whose secret cannot be resolved
\* issues no request and returns status FAIL, http_status null and
\* error_message missing_secret_ref_value.
C17_MissingSecretFailsWithoutRequest ==
  (probe.on /\ probe.out.status # "pending" /\ SecretMissing)
  => /\ ~probe.out.raised
     /\ ~probe.out.requested
     /\ probe.out.status = "FAIL"
     /\ probe.out.http_status = NULL
     /\ probe.out.error_message = "missing_secret_ref_value"

\* C18: the owner has at most one workspace, and the calls that have
\* returned have returned the same id.
C18_OneWorkspacePerOwner ==
  ws.on =>
    /\ Cardinality(ws.rows) <= 1
    /\ \A p, q \in Requesters :
         (ws.call[p].pc = "returned" /\ ws.call[q].pc = "returned")
         => ws.call[p].id = ws.call[q].id

\* What C19 says of one entry of a headers mapping.
EntryIsValid(k, v) ==
  /\ k # <<>>
  /\ Len(k) <= MAX_HEADER_NAME_LEN
  /\ \A i \in DOMAIN k : k[i] \in AsciiAlnum \cup TokenPunctuation
  /\ Lower(k) \notin FORBIDDEN_HEADERS
  /\ Len(v) <= MAX_HEADER_VALUE_LEN
  /\ \A i \in DOMAIN v : v[i] \notin {"\n", "\r"}

\* C19: validate_headers accepts a mapping exactly when every key is a
\* non-empty string of at most 100 token characters that is not, whatever
\* its case, a forbidden name, and every value is a string of at most 4096
\* characters without CR or LF.
C19_AcceptsExactlyValidMappings ==
  (hdr.on /\ hdr.out # "pending")
  => ((hdr.out = "accepted")
        <=> (\A k \in DOMAIN hdr.headers : EntryIsValid(k, hdr.headers[k])))

\* The header names that are equal to a forbidden name when case is ignored.
Sensitive(k) == Lower(k) \in FORBIDDEN_HEADERS

\* C20: the stored headers_json has no key that is, case ignored, a forbidden
\* name, and the headers given to an outbound request have no such key other
\* than the Authorization header that carries the resolved secret.
C20_NoSensitiveHeaderStored ==
  hdr.on =>
    /\ \A k \in DOMAIN hdr.headers_json : ~Sensitive(k)
    /\ \A k \in DOMAIN hdr.sent :
         Sensitive(k)
         => /\ k = AuthorizationKey
            /\ \E v \in SecretSettings :
                 Truthy(v) /\ hdr.sent[k] = Bearer(v.value)

\* A routine stored with a header of its own has been probed with the
\* Authorization header of its secret next to it.
C20_ProbedWithSecret ==
  /\ hdr.on
  /\ hdr.headers_json # NoHeadersJson
  /\ AuthorizationKey \in DOMAIN hdr.sent
  /\ DOMAIN hdr.headers_json \subseteq DOMAIN hdr.sent

\* C21: a stored routine with auth_mode = SECRET_REF has a secret_ref that
\* is not null, and a request that asks for SECRET_REF without a secret_ref
\* ends with status 400.
C21_SecretRefStoredWithSecretMode ==
  hdr.on =>
    \A r \in Routines :
      hdr.rows[r].st = "live"
      => /\ (hdr.rows[r].auth_mode = "SECRET_REF") => hdr.rows[r].secret_ref.set
         /\ (/\ hdr.rows[r].request.auth_mode = "SECRET_REF"
             /\ ~hdr.rows[r].request.secret_ref.set)
              => hdr.rows[r].status = 400

\* C22: no invocation of scheduler() ends with an exception, whatever store
\* call failed and whatever worker raised.
C22_TickReturnsNormally ==
  \A t \in DOMAIN tick : tick[t].pc # "raised"

\* A worker's finish_scheduled_run has failed, its handler has stored the
\* FAIL run, the worker has raised, and every tick has returned.
C22_ReturnedAfterWorkerError ==
  /\ faults > 0
  /\ \A t \in DOMAIN tick : tick[t].pc = "idle"
  /\ \E i \in DOMAIN runs :
       runs[i].status = "FAIL" /\ EndpointStatus(runs[i].routine_id) = "SUCCESS"

\* Routine r holds the lease that tick t took.
LeasedByTick(t, r) ==
  /\ routines[r].st = "live"
  /\ routines[r].locked_by = tick[t].locked_by
  /\ routines[r].lock_until = tick[t].now + LeaseSeconds

\* C23: when a tick returns, every routine that still holds the lease the
\* tick took has been executed by a worker of the tick.
C23_NoLeaseLeftUnexecuted ==
  [][\A t \in DOMAIN tick :
       (tick[t].pc # "idle" /\ tick'[t].pc = "idle")
       => \A r \in DOMAIN routines :
            LeasedByTick(t, r) => wk[t][r].pc = "done"]_vars

\* C24: a worker ends only through its call of release_lock; when the store
\* answers that call the routine is not leased under the worker's locked_by
\* afterwards, and when the worker's finish_scheduled_run had cleared the
\* lease the call leaves the routine as it is.
C24_ReleaseClearsOnlyOwnLease ==
  [][\A t \in DOMAIN tick, r \in DOMAIN routines :
       /\ (wk[t][r].pc \in {"insert", "finish", "except", "release"}
            /\ wk'[t][r].pc = "done")
          => wk[t][r].pc = "release"
       /\ (ReleaseCall(t, r) /\ faults' = faults)
          => /\ ~OwnedBy(routines'[r], tick[t].locked_by)
             /\ wk[t][r].cleared => routines'[r] = routines[r]]_vars

\* C25: a worker whose insert_run fails goes on to finish_scheduled_run with
\* the outcome it has, and a finish_scheduled_run that the store answers and
\* whose locked_by is the routine's clears the lease and sets last_run_at and
\* next_run_at to the worker's values.
C25_InsertFailureStillFinishes ==
  [][\A t \in DOMAIN tick, r \in DOMAIN routines :
       /\ (/\ wk[t][r].pc = "insert"
           /\ wk'[t][r].pc \notin {"insert", "dead"}
           /\ runs' = runs)
          => /\ wk'[t][r] = [wk[t][r] EXCEPT !.pc = "finish"]
             /\ routines' = routines
       /\ (/\ FinishCall(t, r)
           /\ faults' = faults
           /\ OwnedBy(routines[r], tick[t].locked_by))
          => /\ routines'[r].lock_until = NULL
             /\ routines'[r].locked_by = NoOwner
             /\ routines'[r].last_run_at = wk[t][r].finished_at
             /\ routines'[r].next_run_at = wk[t][r].next_run]_vars

\* A routine has been finished, its lease cleared, and no run record of it
\* is stored: the insert_run of its worker failed.
C25_FinishedWithoutRun ==
  \E r \in DOMAIN routines :
    /\ routines[r].last_run_at # NULL
    /\ routines[r].next_run_at > routines[r].last_run_at
    /\ routines[r].lock_until = NULL
    /\ faults > 0
    /\ \A i \in DOMAIN runs : runs[i].routine_id # r

\* The workers a tick has submitted to its pool and that have not completed.
Submitted(t) ==
  {r \in DOMAIN routines :
     wk[t][r].pc \in {"queued", "insert", "finish", "except", "release"}}

\* C26: a tick leaves its pool only when every worker it submitted has
\* completed, no worker of a tick runs while the tick is not in its pool,
\* and every started tick returns.
C26_TickJoinsItsWorkers ==
  /\ [][\A t \in DOMAIN tick :
          /\ (tick[t].pc = "pool" /\ tick'[t].pc # "pool")
             => Submitted(t) = {}
          /\ tick'[t].pc # "pool" => Submitted(t)' = {}]_vars
  /\ \A t \in {"t1"} : (tick[t].pc # "idle") ~> (tick[t].pc = "idle")

\* The tick is waiting in its pool: one of its workers has completed with
\* an error raised, another is still running.
C26_WaitingForSecondWorker ==
  \E t \in DOMAIN tick, r, q \in DOMAIN routines :
    /\ tick[t].pc = "pool"
    /\ wk[t][r].pc = "done" /\ wk[t][r].raised
    /\ q \in Submitted(t)

\* C27: one execution of _run_one_scheduled inserts at most one run record:
\* the number of insert_run calls of a worker that the store has answered
\* never exceeds one.
C27_OneRunPerExecution ==
  \A t \in DOMAIN tick, r \in DOMAIN routines : wk[t][r].inserted <= 1

\* C28: the next_run_at that a worker writes with an answered
\* finish_scheduled_run whose locked_by is the routine's is at most one
\* interval after the worker's now, whatever row try_lock_routine handed it.
C28_NoSlotSkipped ==
  [][\A t \in DOMAIN tick, r \in DOMAIN routines :
       (/\ FinishCall(t, r)
        /\ faults' = faults
        /\ OwnedBy(routines[r], tick[t].locked_by))
       => routines'[r].next_run_at
            <= wk[t][r].finished_at + Minutes(wk[t][r].routine.interval_minutes)]_vars

\* C29: every write to the last_run_at of a routine, by touch_last_run or by
\* finish_scheduled_run, stores a value greater than or equal to the one it
\* replaces.
C29_LastRunAtNeverDecreases ==
  [][\A r \in DOMAIN routines :
       (/\ routines[r].st = "live"
        /\ routines'[r].st = "live"
        /\ routines[r].last_run_at # NULL)
       => routines'[r].last_run_at >= routines[r].last_run_at]_vars

====
